---- MODULE Spec2Model ----
(***************************************************************************)
(* Delivery and notification dispatch of the enterprise API.               *)
(*                                                                         *)
(* Four parts of the repository are modelled:                              *)
(*   - the Celery delivery tasks (app/tasks/delivery.py) that wrap the     *)
(*     DeliveryEngine service (app/services/delivery_engine.py) and retry  *)
(*     themselves with self.retry(countdown, max_retries);                 *)
(*   - the webhook processor Lambda handler                                *)
(*     (app/lambda_handlers/webhook_processor.py);                         *)
(*   - the webhook signature helpers (app/core/security.py);               *)
(*   - the delivery processor Lambda handler                               *)
(*     (app/lambda_handlers/delivery_processor.py).                        *)
(* SpecDelivery adds to the delivery task the scheduling that the Celery   *)
(* workers guarantee (app/core/celery.py) and the periodic beat task.      *)
(* The ORM tables delivery_statuses, delivery_attempts and webhook_events  *)
(* are declared in app/models but no code writes a row to them; they are   *)
(* state that every action leaves unchanged.                               *)
(***************************************************************************)
EXTENDS Integers, Sequences, FiniteSets, TLC

\* ------------------------------------------------------------------ bounds
MaxTasks == 2          \* Celery task instances submitted in one behaviour
MaxInvocations == 4    \* invocations of the webhook Lambda handler
MaxLen == 2            \* length of a payload / secret string
MaxProcessorRuns == 2  \* invocations of the delivery processor Lambda

\* ------------------------------------------------------- program constants
\* DeliveryStatus.max_retries = Column(Integer, default=3)
DeliveryStatus_max_retries == 3
\* WebhookEvent.max_attempts = Column(Integer, default=3)
WebhookEvent_max_attempts == 3
\* WebhookEndpoint.retry_delay_seconds = Column(Integer, default=60)
WebhookEndpoint_retry_delay_seconds == 60
\* self.retry(..., max_retries=3) in process_delivery
process_delivery_max_retries == 3
\* self.retry(..., max_retries=2) in process_takedown
process_takedown_max_retries == 2
\* countdown=60 * (2 ** self.request.retries) in process_delivery
process_delivery_base == 60
\* countdown=30 * (2 ** self.request.retries) in process_takedown
process_takedown_base == 30

\* "timestamp": "2025-07-12T15:00:00Z" in every DeliveryEngine result
StubTimestamp == "2025-07-12T15:00:00Z"

VARIABLES
    tasks,              \* Celery task instances: request, state, result, log lines
    delivery_statuses,  \* rows of the delivery_statuses table
    delivery_attempts,  \* rows of the delivery_attempts table
    http_calls,         \* outbound requests.post calls of the webhook handler
    responses,          \* values returned by the webhook handler, in order
    webhook_events,     \* rows of the webhook_events table
    sig,                \* one use of the webhook signature helpers
    processor_responses, \* outcomes of the delivery processor Lambda, in order
    sns_published       \* messages published to the delivery SNS topic

vars == <<tasks, delivery_statuses, delivery_attempts, http_calls, responses,
          webhook_events, sig, processor_responses, sns_published>>

\* ------------------------------------------------------------ input domains
TaskIds == 1..MaxTasks
Releases == {"R1"}
\* partner_ids = None (a JSON null in the request) is not iterable
None == <<"<None>">>
PartnerIdLists == {<<"P1">>, <<"P2">>, <<"P1", "P2">>, None}
TaskNames == {"process_delivery", "retry_failed_delivery", "process_takedown"}
\* What the try block of a task meets besides the engine's own behaviour:
\* nothing, or the soft time limit (task_soft_time_limit) expiring in it.
TryOutcomes == {"ok", "SoftTimeLimitExceeded"}

NoTask ==
    [name |-> "", release_id |-> "", partner_ids |-> <<>>, retries |-> 0,
     state |-> "NONE", countdown |-> 0, exc |-> "", results |-> <<>>,
     partial |-> <<>>, log |-> <<>>]

\* ----------------------------------------------------------- DeliveryEngine
EngineResults(release_id, partner_ids, status) ==
    [i \in 1..Len(partner_ids) |->
        [release_id |-> release_id, partner_id |-> partner_ids[i],
         status |-> status, timestamp |-> StubTimestamp]]

\* Each engine method returns [exc, results]; iterating None raises TypeError.
DeliveryEngine_process_delivery(release_id, partner_ids) ==
    IF partner_ids = None
    THEN [exc |-> "TypeError", results |-> <<>>]
    ELSE [exc |-> "", results |-> EngineResults(release_id, partner_ids, "success")]

DeliveryEngine_retry_failed_deliveries(release_id, partner_ids) ==
    IF partner_ids = None
    THEN [exc |-> "TypeError", results |-> <<>>]
    ELSE [exc |-> "", results |-> EngineResults(release_id, partner_ids, "retry_success")]

DeliveryEngine_process_takedown(release_id, partner_ids) ==
    IF partner_ids = None
    THEN [exc |-> "TypeError", results |-> <<>>]
    ELSE [exc |-> "", results |-> EngineResults(release_id, partner_ids, "takedown_success")]

\* ------------------------------------------------------------- Celery tasks
RECURSIVE Pow2(_)
Pow2(n) == IF n = 0 THEN 1 ELSE 2 * Pow2(n - 1)

\* 60 * (2 ** self.request.retries)
delivery_countdown(retries) == process_delivery_base * Pow2(retries)

takedown_countdown_as_delivery(retries) == process_delivery_base * Pow2(retries)

\* 30 * (2 ** self.request.retries)
takedown_countdown(retries) == process_takedown_base * Pow2(retries)

\* self.retry(exc=e, countdown=..., max_retries=...): the request is queued
\* again with retries + 1 unless that exceeds max_retries, in which case exc
\* is raised and the task ends in FAILURE.
retry_always_requeues(task, countdown, max_retries) ==
    [task EXCEPT !.state = "RETRY", !.retries = task.retries + 1,
                 !.countdown = countdown]

retry_gives_up_at_once(task, countdown, max_retries) ==
    [task EXCEPT !.state = "FAILURE"]

retry_allows_one_more(task, countdown, max_retries) ==
    IF task.retries > max_retries
    THEN [task EXCEPT !.state = "FAILURE"]
    ELSE [task EXCEPT !.state = "RETRY", !.retries = task.retries + 1,
                      !.countdown = countdown]

retry(task, countdown, max_retries) ==
    IF task.retries + 1 > max_retries
    THEN [task EXCEPT !.state = "FAILURE"]
    ELSE [task EXCEPT !.state = "RETRY", !.retries = task.retries + 1,
                      !.countdown = countdown]

\* task.delay(release_id, partner_ids): a new request with retries = 0
apply_async(t, name, release_id, partner_ids) ==
    /\ tasks[t].state = "NONE"
    /\ \A u \in TaskIds : u < t => tasks[u].state # "NONE"
    /\ tasks' = [tasks EXCEPT ![t] =
            [NoTask EXCEPT !.name = name, !.release_id = release_id,
                           !.partner_ids = partner_ids, !.state = "PENDING"]]
    /\ UNCHANGED <<delivery_statuses, delivery_attempts, http_calls, responses,
                 webhook_events, sig, processor_responses, sns_published>>

StartLine(name) ==
    CASE name = "process_delivery" -> "Processing delivery task"
      [] name = "retry_failed_delivery" -> "Retrying failed delivery"
      [] OTHER -> "Processing takedown task"

task_started_first_delivery_only(t) ==
    /\ tasks[t].state = "PENDING"
    /\ tasks' = [tasks EXCEPT ![t].state = "STARTED",
                              ![t].partial = <<>>,
                              ![t].log = Append(@, StartLine(tasks[t].name))]
    /\ UNCHANGED <<delivery_statuses, delivery_attempts, http_calls, responses,
                   webhook_events, sig, processor_responses, sns_published>>

\* A worker takes the request (first delivery or a scheduled retry): the task
\* is marked STARTED (task_track_started) and logs its first line; nothing
\* of an earlier execution's engine call is left.
task_started(t) ==
    /\ tasks[t].state \in {"PENDING", "RETRY"}
    /\ tasks' = [tasks EXCEPT ![t].state = "STARTED",
                              ![t].partial = <<>>,
                              ![t].log = Append(@, StartLine(tasks[t].name))]
    /\ UNCHANGED <<delivery_statuses, delivery_attempts, http_calls, responses,
                 webhook_events, sig, processor_responses, sns_published>>

\* The soft time limit can expire anywhere in the try block: before the
\* engine's loop over partner_ids, or after the loop has appended the results
\* of the first k partners.
LimitPoints(partner_ids) ==
    IF partner_ids = None THEN {0} ELSE 0..Len(partner_ids)

\* Outcome of "with SessionLocal() as db: results = engine.<method>(...)":
\* the exception raised, the list returned, and the part of the engine's
\* results list that existed when an exception discarded it.
TryBlock(outcome, k, engine_result) ==
    IF outcome # "ok"
    THEN [exc |-> outcome, results |-> <<>>,
          partial |-> SubSeq(engine_result.results, 1, k)]
    ELSE [exc |-> engine_result.exc, results |-> engine_result.results,
          partial |-> <<>>]

process_delivery(t) ==
    /\ tasks[t].name = "process_delivery"
    /\ tasks[t].state = "STARTED"
    /\ \E outcome \in TryOutcomes, k \in LimitPoints(tasks[t].partner_ids) :
        LET task == tasks[t]
            out == TryBlock(outcome, k,
                       DeliveryEngine_process_delivery(task.release_id, task.partner_ids))
        IN  /\ outcome = "ok" => k = 0
            /\ tasks' = [tasks EXCEPT ![t] =
                IF out.exc = ""
                THEN [task EXCEPT !.state = "SUCCESS", !.results = out.results,
                         !.log = Append(@, "Delivery task completed successfully")]
                ELSE retry([task EXCEPT !.exc = out.exc, !.partial = out.partial,
                                !.log = Append(@, "Delivery task failed")],
                           delivery_countdown(task.retries),
                           process_delivery_max_retries)]
    /\ UNCHANGED <<delivery_statuses, delivery_attempts, http_calls, responses,
                 webhook_events, sig, processor_responses, sns_published>>

retry_failed_delivery(t) ==
    /\ tasks[t].name = "retry_failed_delivery"
    /\ tasks[t].state = "STARTED"
    /\ \E outcome \in TryOutcomes, k \in LimitPoints(tasks[t].partner_ids) :
        LET task == tasks[t]
            out == TryBlock(outcome, k,
                       DeliveryEngine_retry_failed_deliveries(task.release_id, task.partner_ids))
        IN  /\ outcome = "ok" => k = 0
            /\ tasks' = [tasks EXCEPT ![t] =
                IF out.exc = ""
                THEN [task EXCEPT !.state = "SUCCESS", !.results = out.results,
                         !.log = Append(@, "Retry delivery task completed")]
                ELSE [task EXCEPT !.state = "FAILURE", !.exc = out.exc,
                         !.partial = out.partial,
                         !.log = Append(@, "Retry delivery task failed")]]
    /\ UNCHANGED <<delivery_statuses, delivery_attempts, http_calls, responses,
                 webhook_events, sig, processor_responses, sns_published>>

process_takedown(t) ==
    /\ tasks[t].name = "process_takedown"
    /\ tasks[t].state = "STARTED"
    /\ \E outcome \in TryOutcomes, k \in LimitPoints(tasks[t].partner_ids) :
        LET task == tasks[t]
            out == TryBlock(outcome, k,
                       DeliveryEngine_process_takedown(task.release_id, task.partner_ids))
        IN  /\ outcome = "ok" => k = 0
            /\ tasks' = [tasks EXCEPT ![t] =
                IF out.exc = ""
                THEN [task EXCEPT !.state = "SUCCESS", !.results = out.results,
                         !.log = Append(@, "Takedown task completed")]
                ELSE retry([task EXCEPT !.exc = out.exc, !.partial = out.partial,
                                !.log = Append(@, "Takedown task failed")],
                           takedown_countdown(task.retries),
                           process_takedown_max_retries)]
    /\ UNCHANGED <<delivery_statuses, delivery_attempts, http_calls, responses,
                 webhook_events, sig, processor_responses, sns_published>>

\* processed_count = 0 in process_scheduled_deliveries
scheduled_processed_count == 0

\* The periodic task run by Celery beat every 300 s: it logs, looks at no
\* delivery and returns {"status": "success", "processed_count": 0, ...}.
\* It changes no state, so it is a step of SpecDelivery only: the behaviours
\* of Spec are the same with and without it.
process_scheduled_deliveries ==
    /\ scheduled_processed_count = 0
    /\ UNCHANGED vars

\* -------------------------------------------------- webhook Lambda handler
\* event.get('url') is None or "" when the SNS message carries no URL
Urls == {"", "https://example.com/webhook"}
EventTypes == {"delivery_complete", "delivery_failed"}
SnsEvents ==
    [event_type : EventTypes, release_id : Releases, partner_id : {"P1"}, url : Urls]
\* requests.post(url, json=payload) then raise_for_status(): a 2xx answer,
\* an HTTP error status (HTTPError), a connection that times out (Timeout),
\* both RequestException, or an endpoint that accepts the connection and
\* never answers: the call passes no timeout, so it blocks until the Lambda
\* runtime ends the invocation.
PostOutcomes == {"200", "503", "Timeout", "NoAnswer"}

\* payload = {"event_type": ..., "release_id": ..., "partner_id": ..., ...}
webhook_payload(event) ==
    [event_type |-> event.event_type, release_id |-> event.release_id,
     partner_id |-> event.partner_id]

\* handler(event, context): one invocation per message SNS hands over; SNS
\* delivers at least once, so the same event may be handed over again.
handler(event, outcome) ==
    /\ Len(responses) < MaxInvocations
    /\ IF event.url = ""
       THEN /\ responses' = Append(responses,
                    [event |-> event, statusCode |-> 400, error |-> ""])
            /\ UNCHANGED http_calls
       ELSE /\ http_calls' = Append(http_calls,
                    [url |-> event.url, payload |-> webhook_payload(event),
                     outcome |-> outcome])
            /\ responses' = Append(responses,
                    IF outcome = "NoAnswer"
                    THEN [event |-> event, statusCode |-> 0,
                          error |-> "Task timed out"]
                    ELSE [event |-> event,
                          statusCode |-> IF outcome = "200" THEN 200 ELSE 500,
                          error |-> ""])
    /\ UNCHANGED <<tasks, delivery_statuses, delivery_attempts, webhook_events, sig,
                 processor_responses, sns_published>>

\* ----------------------------------------- delivery processor Lambda handler
\* detail of an EventBridge event: release_id "" stands for a missing or
\* empty release_id, partner_ids <<>> for a missing key (default []).
ProcessorActions == {"deliver", "retry", "takedown", "archive"}
ProcessorEvents ==
    [release_id : {"", "R1"}, partner_ids : PartnerIdLists \cup {<<>>},
     action : ProcessorActions]
\* os.environ.get('DELIVERY_TOPIC_ARN')
TopicArns == {"", "arn:aws:sns:delivery"}

\* send_delivery_notification(result): publishes one delivery_complete
\* message if the topic is configured, and swallows every exception.
send_delivery_notification(result, topic_arn) ==
    IF topic_arn # ""
    THEN <<[event_type |-> "delivery_complete", release_id |-> result.release_id,
            partner_id |-> result.partner_id, status |-> result.status,
            timestamp |-> result.timestamp]>>
    ELSE <<>>

RECURSIVE Notifications(_, _)
Notifications(results, topic_arn) ==
    IF results = <<>> THEN <<>>
    ELSE (IF Head(results).status = "success"
          THEN send_delivery_notification(Head(results), topic_arn) ELSE <<>>)
         \o Notifications(Tail(results), topic_arn)

\* "def handler" is not "async def" although its body contains
\* "await send_delivery_notification(result)": compiling the module raises
\* SyntaxError ('await' outside async function).
handler_is_async_def == FALSE
import_delivery_processor == IF handler_is_async_def THEN "" ELSE "SyntaxError"

\* The body of handler(event, context): [statusCode, raised, published]
delivery_processor_body(detail, topic_arn) ==
    IF detail.release_id = ""
    THEN [statusCode |-> 400, raised |-> "", published |-> <<>>]
    ELSE LET out == CASE detail.action = "deliver" ->
                            DeliveryEngine_process_delivery(detail.release_id, detail.partner_ids)
                      [] detail.action = "retry" ->
                            DeliveryEngine_retry_failed_deliveries(detail.release_id, detail.partner_ids)
                      [] detail.action = "takedown" ->
                            DeliveryEngine_process_takedown(detail.release_id, detail.partner_ids)
                      [] OTHER -> [exc |-> "UnboundLocalError", results |-> <<>>]
         IN  IF out.exc # ""
             THEN [statusCode |-> 500, raised |-> "", published |-> <<>>]
             ELSE [statusCode |-> 200, raised |-> "",
                   published |-> IF detail.action = "deliver"
                                 THEN Notifications(out.results, topic_arn)
                                 ELSE <<>>]

\* One invocation of the Lambda function for an EventBridge event
delivery_processor_handler(detail, topic_arn) ==
    /\ Len(processor_responses) < MaxProcessorRuns
    /\ LET r == IF import_delivery_processor # ""
                THEN [statusCode |-> 0, raised |-> import_delivery_processor,
                      published |-> <<>>]
                ELSE delivery_processor_body(detail, topic_arn)
       IN  /\ processor_responses' = Append(processor_responses,
                  [detail |-> detail, statusCode |-> r.statusCode, raised |-> r.raised])
           /\ sns_published' = sns_published \o r.published
    /\ UNCHANGED <<tasks, delivery_statuses, delivery_attempts, http_calls, responses,
                   webhook_events, sig>>

\* ------------------------------------------------------- webhook signatures
Alphabet == {"a", "1"}
Strings == UNION {[1..n -> Alphabet] : n \in 0..MaxLen}

ord(c) == IF c = "a" THEN 97 ELSE 49

\* str.encode(): the UTF-8 bytes of an ASCII string
encode(s) == [i \in DOMAIN s |-> ord(s[i])]

\* Stand-in for hashlib.sha256: a one-byte rolling digest of a byte string
RECURSIVE sha256(_)
sha256(bytes) ==
    IF bytes = <<>> THEN 7
    ELSE (31 * sha256(SubSeq(bytes, 1, Len(bytes) - 1)) + bytes[Len(bytes)] + 1) % 256

\* hmac.new(key, msg, hashlib.sha256): H(key' ++ H(key'' ++ msg)) with the
\* key padded in two different ways
hmac_new(key, msg) ==
    LET inner == [i \in DOMAIN key |-> (key[i] + 54) % 256]
        outer == [i \in DOMAIN key |-> (key[i] + 92) % 256]
    IN  sha256(outer \o <<sha256(inner \o msg)>>)

HexDigit(d) ==
    <<"0", "1", "2", "3", "4", "5", "6", "7", "8", "9",
      "a", "b", "c", "d", "e", "f">>[d + 1]

\* .hexdigest(): lower-case hex, two digits per digest byte
hexdigest(n) == <<HexDigit(n \div 16), HexDigit(n % 16)>>

SignaturePrefix == <<"s", "h", "a", "2", "5", "6", "=">>

\* return f"sha256={signature}"
create_webhook_signature(payload, secret) ==
    SignaturePrefix \o hexdigest(hmac_new(encode(secret), encode(payload)))

\* Names bound at module level in security.py; the "import hmac" inside
\* create_webhook_signature binds a local of that function only.
security_globals ==
    {"datetime", "timedelta", "Optional", "Union", "JWTError", "jwt",
     "CryptContext", "HTTPException", "status", "Depends", "HTTPBearer",
     "HTTPAuthorizationCredentials", "secrets", "settings", "pwd_context",
     "security", "create_access_token", "create_refresh_token",
     "verify_password", "get_password_hash", "decode_token",
     "generate_api_key", "verify_api_key", "APIKeyChecker", "api_key_checker",
     "create_webhook_signature", "verify_webhook_signature"}

\* expected = create_webhook_signature(payload, secret)
\* return hmac.compare_digest(signature, expected)
verify_webhook_signature(payload, signature, secret) ==
    IF "hmac" \in security_globals
    THEN [raised |-> "",
          value |-> signature = create_webhook_signature(payload, secret)]
    ELSE [raised |-> "NameError", value |-> FALSE]

NoSig == [phase |-> "idle", payload |-> <<>>, secret |-> <<>>,
          signature |-> <<>>, raised |-> "", verified |-> FALSE]

\* The dispatcher signs a payload with the endpoint's secret
sign(payload, secret) ==
    /\ sig.phase = "input"
    /\ payload = sig.payload /\ secret = sig.secret
    /\ sig' = [sig EXCEPT !.phase = "signed",
                          !.signature = create_webhook_signature(payload, secret)]
    /\ UNCHANGED <<tasks, delivery_statuses, delivery_attempts, http_calls, responses,
                 webhook_events, processor_responses, sns_published>>

\* A receiver checks the signature it was sent
verify(payload, secret) ==
    /\ sig.phase = "signed"
    /\ payload = sig.payload /\ secret = sig.secret
    /\ LET r == verify_webhook_signature(payload, sig.signature, secret)
       IN  sig' = [sig EXCEPT !.phase = "verified", !.raised = r.raised,
                              !.verified = r.value]
    /\ UNCHANGED <<tasks, delivery_statuses, delivery_attempts, http_calls, responses,
                 webhook_events, processor_responses, sns_published>>

\* ------------------------------------------------------------ specification
Init ==
    /\ tasks = [t \in TaskIds |-> NoTask]
    /\ delivery_statuses = {}
    /\ delivery_attempts = {}
    /\ processor_responses = <<>>
    /\ sns_published = <<>>
    /\ http_calls = <<>>
    /\ responses = <<>>
    /\ webhook_events = {}
    /\ sig = NoSig

Next ==
    \/ \E t \in TaskIds, name \in TaskNames, r \in Releases, ps \in PartnerIdLists :
          apply_async(t, name, r, ps)
    \/ \E t \in TaskIds : task_started(t)
    \/ \E t \in TaskIds : process_delivery(t)
    \/ \E t \in TaskIds : retry_failed_delivery(t)
    \/ \E t \in TaskIds : process_takedown(t)

Spec == Init /\ [][Next]_vars

\* Deliveries only, with the scheduling the workers guarantee: a queued
\* request (new, or a retry whose countdown has run out) is taken by a worker,
\* and a started body ends, at the latest when task_time_limit expires.
NextDelivery ==
    \/ \E t \in TaskIds, r \in Releases, ps \in {<<"P1", "P2">>, None} :
          apply_async(t, "process_delivery", r, ps)
    \/ \E t \in TaskIds : task_started(t)
    \/ \E t \in TaskIds : process_delivery(t)
    \/ process_scheduled_deliveries

FairDelivery ==
    \A t \in TaskIds : WF_vars(task_started(t)) /\ WF_vars(process_delivery(t))

SpecDelivery == Init /\ [][NextDelivery]_vars /\ FairDelivery

NextWebhook ==
    \E event \in SnsEvents, outcome \in PostOutcomes : handler(event, outcome)

SpecWebhook == Init /\ [][NextWebhook]_vars

NextProcessor ==
    \E detail \in ProcessorEvents, topic_arn \in TopicArns :
        delivery_processor_handler(detail, topic_arn)

SpecProcessor == Init /\ [][NextProcessor]_vars

InitSignature ==
    /\ tasks = [t \in TaskIds |-> NoTask]
    /\ delivery_statuses = {}
    /\ delivery_attempts = {}
    /\ processor_responses = <<>>
    /\ sns_published = <<>>
    /\ http_calls = <<>>
    /\ responses = <<>>
    /\ webhook_events = {}
    /\ \E payload \in Strings, secret \in Strings :
          sig = [NoSig EXCEPT !.phase = "input", !.payload = payload,
                              !.secret = secret]

NextSignature ==
    \/ \E payload \in Strings, secret \in Strings : sign(payload, secret)
    \/ \E payload \in Strings, secret \in Strings : verify(payload, secret)

SpecSignature == InitSignature /\ [][NextSignature]_vars

\* ------------------------------------------------- delivery: observations
Count(seq, x) == Cardinality({i \in DOMAIN seq : seq[i] = x})

\* Executions of the task body so far (one start line per execution)
Attempts(t) == Count(tasks[t].log, StartLine(tasks[t].name))

\* Executions of process_delivery that ended in the except branch
Failures(t) == Count(tasks[t].log, "Delivery task failed")

PartnersOf(results) == {results[i].partner_id : i \in DOMAIN results}

\* The pair has been processed successfully by a finished process_delivery
Delivered(release_id, partner_id) ==
    \E u \in TaskIds :
        /\ tasks[u].name = "process_delivery"
        /\ tasks[u].state = "SUCCESS"
        /\ tasks[u].release_id = release_id
        /\ partner_id \in PartnersOf(tasks[u].results)

\* Error taxonomy of the claims: a TypeError on malformed input cannot
\* succeed on a retry, an expired time limit can.
IsPermanent(exc) == exc = "TypeError"

\* C1: in every reachable state the retry count of every delivery unit is at
\* most max_retries (3), whatever deliver, retry and takedown tasks ran and
\* however their executions ended.
C1_RetryCountWithinMax ==
    \A t \in TaskIds : tasks[t].retries <= DeliveryStatus_max_retries

C1_Witness ==
    \E t \in TaskIds :
        /\ tasks[t].name = "process_delivery"
        /\ tasks[t].state = "FAILURE"
        /\ tasks[t].retries = DeliveryStatus_max_retries

\* C2: a unit is failed only if its retry count equals max_retries or its
\* last failure was permanent.
C2_FailedOnlyExhaustedOrPermanent ==
    \A t \in TaskIds :
        tasks[t].state = "FAILURE" =>
            \/ tasks[t].retries = DeliveryStatus_max_retries
            \/ IsPermanent(tasks[t].exc)

\* C3: of two deliveries in flight for the same (release, partner) pair only
\* one proceeds; two executions for one pair are never in progress together.
C3_OneInProgressPerPair ==
    \A t1, t2 \in TaskIds :
        (/\ t1 # t2
         /\ tasks[t1].name = "process_delivery"
         /\ tasks[t2].name = "process_delivery"
         /\ tasks[t1].state = "STARTED"
         /\ tasks[t2].state = "STARTED"
         /\ tasks[t1].release_id = tasks[t2].release_id)
        => {tasks[t1].partner_ids[i] : i \in DOMAIN tasks[t1].partner_ids}
             \cap {tasks[t2].partner_ids[i] : i \in DOMAIN tasks[t2].partner_ids} = {}

\* C4: a retry of a pair that is already delivered is a no-op: the retry
\* does not process the pair again and reports no new outcome for it.
C4_RetryOfDeliveredIsNoOp ==
    [][\A t \in TaskIds :
          (tasks[t].name = "retry_failed_delivery" /\ tasks[t].state = "STARTED")
          => \A p \in PartnersOf(tasks'[t].results) :
                ~Delivered(tasks[t].release_id, p)]_vars

\* C5: the attempts recorded for one pair by deliver and retry operations
\* have strictly increasing timestamps (so no two records of one pair carry
\* the same timestamp).
C5_AttemptTimestampsIncrease ==
    \A t1, t2 \in TaskIds :
        \A i \in DOMAIN tasks[t1].results, j \in DOMAIN tasks[t2].results :
            (/\ <<t1, i>> # <<t2, j>>
             /\ {tasks[t1].name, tasks[t2].name}
                    \subseteq {"process_delivery", "retry_failed_delivery"}
             /\ tasks[t1].results[i].release_id = tasks[t2].results[j].release_id
             /\ tasks[t1].results[i].partner_id = tasks[t2].results[j].partner_id)
            => tasks[t1].results[i].timestamp # tasks[t2].results[j].timestamp

C9_PermanentErrorEndsDelivery ==
    \A t \in TaskIds :
        (tasks[t].name = "process_delivery" /\ IsPermanent(tasks[t].exc)) =>
            /\ tasks[t].state = "FAILURE"
            /\ tasks[t].retries = 0

\* ------------------------------------------------- webhooks: observations
SuccessfulCalls(url, payload) ==
    {i \in DOMAIN http_calls :
        /\ http_calls[i].url = url
        /\ http_calls[i].payload = payload
        /\ http_calls[i].outcome = "200"}

C7_SignatureRoundTrip ==
    sig.phase = "verified" =>
        /\ SubSeq(sig.signature, 1, Len(SignaturePrefix)) = SignaturePrefix
        /\ sig.raised = ""
        /\ sig.verified = TRUE

\* C10: after a failed outbound call the webhook event is retrying (fewer
\* than max_attempts attempts made, a next retry scheduled) or abandoned
\* (exactly max_attempts attempts made).
C10_FailedCallIsRetriedOrAbandoned ==
    \A i \in DOMAIN responses :
        responses[i].statusCode = 500 =>
            \E w \in webhook_events :
                /\ w.url = responses[i].event.url
                /\ w.payload = webhook_payload(responses[i].event)
                /\ \/ /\ w.status = "retrying"
                      /\ w.attempt_count < WebhookEvent_max_attempts
                      /\ w.next_retry_at > 0
                   \/ /\ w.status = "abandoned"
                      /\ w.attempt_count = WebhookEvent_max_attempts

\* Failed outbound calls for the (endpoint, event) of call i, up to call i
FailedCallsUpTo(i) ==
    Cardinality({j \in 1..i :
        /\ http_calls[j].url = http_calls[i].url
        /\ http_calls[j].payload = http_calls[i].payload
        /\ http_calls[j].outcome # "200"})

\* C11: the delay before the next try after a retryable failure at attempt
\* n is base * 2^n, so successive delays double; for webhooks the base is
\* the endpoint's retry_delay_seconds (60 by default): after the n-th failed
\* call of an event that is not yet abandoned, its retry is scheduled
\* retry_delay_seconds * 2^n seconds after the failure.
C11_WebhookRetryDelayDoubles ==
    \A i \in DOMAIN http_calls :
        (/\ http_calls[i].outcome # "200"
         /\ FailedCallsUpTo(i) < WebhookEvent_max_attempts) =>
            \E w \in webhook_events :
                /\ w.url = http_calls[i].url
                /\ w.payload = http_calls[i].payload
                /\ w.attempt_count >= FailedCallsUpTo(i)
                /\ \/ w.attempt_count > FailedCallsUpTo(i)
                   \/ w.next_retry_at - w.updated_at =
                         WebhookEndpoint_retry_delay_seconds * Pow2(w.attempt_count)

FailedCalls(url, payload) ==
    {i \in DOMAIN http_calls :
        /\ http_calls[i].url = url
        /\ http_calls[i].payload = payload
        /\ http_calls[i].outcome # "200"}

AttemptCount(url, payload) ==
    Cardinality({i \in DOMAIN http_calls :
        http_calls[i].url = url /\ http_calls[i].payload = payload})

StatusRows(release_id, partner_id) ==
    {row \in delivery_statuses :
        row.release_id = release_id /\ row.partner_id = partner_id}

AttemptRows(release_id, partner_id) ==
    {row \in delivery_attempts :
        row.release_id = release_id /\ row.partner_id = partner_id}

\* C15: for every (release, partner) pair that a delivery has targeted there
\* is exactly one DeliveryStatus row: never none, never a second one.
C15_OneStatusRowPerTargetedPair ==
    \A t \in TaskIds :
        (tasks[t].name = "process_delivery" /\ tasks[t].state = "SUCCESS") =>
            \A i \in DOMAIN tasks[t].results :
                Cardinality(StatusRows(tasks[t].release_id,
                                       tasks[t].results[i].partner_id)) = 1

\* C16: an attempt is recorded before the status change it causes: for every
\* pair the number of DeliveryAttempt rows is at least the number of attempts
\* that the delivery's state and retry count show to have happened.
C16_AttemptRecordedBeforeStatus ==
    \A t \in TaskIds :
        (tasks[t].name = "process_delivery" /\ tasks[t].partner_ids # None) =>
            \A i \in DOMAIN tasks[t].partner_ids :
                Cardinality(AttemptRows(tasks[t].release_id, tasks[t].partner_ids[i]))
                    >= tasks[t].retries
                         + (IF tasks[t].state \in {"SUCCESS", "FAILURE"} THEN 1 ELSE 0)

\* C17: the partners of one deliver call are independent: when the delivery
\* fails at one partner, the partners before it in the batch, whose delivery
\* had already succeeded, are neither failed with it nor queued to be
\* delivered again.
C17_PartnerFailureLeavesOthersAlone ==
    \A t \in TaskIds :
        (/\ tasks[t].name = "process_delivery"
         /\ tasks[t].state \in {"RETRY", "FAILURE"}
         /\ Len(tasks[t].partial) < Len(tasks[t].partner_ids))
        => PartnersOf(tasks[t].partial) = {}

\* ------------------------------------------- delivery processor: observations
\* Invocations that were asked to bring the pair to a terminal state
TerminalRequests(action, release_id, partner_id) ==
    {i \in DOMAIN processor_responses :
        /\ processor_responses[i].detail.action = action
        /\ processor_responses[i].detail.release_id = release_id
        /\ processor_responses[i].detail.partner_ids # None
        /\ \E k \in DOMAIN processor_responses[i].detail.partner_ids :
              processor_responses[i].detail.partner_ids[k] = partner_id}

Published(event_type, release_id, partner_id) ==
    {i \in DOMAIN sns_published :
        /\ sns_published[i].event_type = event_type
        /\ sns_published[i].release_id = release_id
        /\ sns_published[i].partner_id = partner_id}

\* C18: every terminal transition of a pair emits exactly one domain event
\* and no event is emitted without one: as many delivery_complete events as
\* deliveries of the pair, as many takedown_complete events as takedowns.
C18_OneEventPerTerminalTransition ==
    \A p \in {"P1", "P2"} :
        /\ Cardinality(Published("delivery_complete", "R1", p))
              = Cardinality(TerminalRequests("deliver", "R1", p))
        /\ Cardinality(Published("takedown_complete", "R1", p))
              = Cardinality(TerminalRequests("takedown", "R1", p))

\* C19: deliver returns a result list with exactly one entry per requested
\* partner, also when the delivery to some partner fails; only malformed
\* input makes the call raise instead of returning its list.
C19_PartnerFailureIsReportedNotRaised ==
    \A t \in TaskIds :
        tasks[t].name = "process_delivery" =>
            /\ tasks[t].state = "SUCCESS" =>
                  Len(tasks[t].results) = Len(tasks[t].partner_ids)
            /\ tasks[t].exc # "" => tasks[t].partner_ids = None

\* Executions of process_takedown that ended in the except branch
TakedownFailures(t) == Count(tasks[t].log, "Takedown task failed")

\* C20 (as stated): a failed takedown is retried with the same retry policy
\* as a delivery: the same base delay (60 s), doubled per retry, and the same
\* maximum number of retries (3).
C20_TakedownUsesDeliveryPolicy ==
    \A t \in TaskIds :
        tasks[t].name = "process_takedown" =>
            /\ tasks[t].retries >= 1 =>
                  tasks[t].countdown = delivery_countdown(tasks[t].retries - 1)
            /\ tasks[t].state = "FAILURE" =>
                  tasks[t].retries = process_delivery_max_retries

\* C20 (amended): a failed takedown is retried on the same doubling schedule
\* as a delivery but with its own constants: the delay before retry n + 1 is
\* 30 * 2^n seconds (half the delivery's 60 * 2^n) and it is given up after
\* 2 retries (the third failure), where a delivery is given up after 3.
C20_TakedownBackoffPolicy ==
    \A t \in TaskIds :
        /\ tasks[t].name = "process_takedown" =>
              /\ tasks[t].retries <= 2
              /\ tasks[t].retries >= 1 =>
                    /\ tasks[t].countdown = 30 * Pow2(tasks[t].retries - 1)
                    /\ 2 * tasks[t].countdown = delivery_countdown(tasks[t].retries - 1)
              /\ tasks[t].state = "FAILURE" <=> TakedownFailures(t) = 3
              /\ tasks[t].state = "FAILURE" => tasks[t].retries = 2
        /\ tasks[t].name = "process_delivery" =>
              /\ tasks[t].retries >= 1 =>
                    tasks[t].countdown = 60 * Pow2(tasks[t].retries - 1)
              /\ tasks[t].state = "FAILURE" => tasks[t].retries = 3

C20_Witness ==
    \E t1, t2 \in TaskIds :
        /\ tasks[t1].name = "process_takedown"
        /\ tasks[t1].state = "FAILURE"
        /\ tasks[t1].retries = 2
        /\ tasks[t1].countdown = 60
        /\ tasks[t2].name = "process_delivery"
        /\ tasks[t2].state = "RETRY"
        /\ tasks[t2].retries = 2
        /\ tasks[t2].countdown = 120

\* ------------------------------------------- delivery: status of a pair
Targets(t, release_id, partner_id) ==
    /\ tasks[t].release_id = release_id
    /\ \E i \in DOMAIN tasks[t].partner_ids : tasks[t].partner_ids[i] = partner_id

\* Some delivery of the pair is in one of the given task states
DeliveryIn(states, release_id, partner_id) ==
    \E u \in TaskIds :
        /\ tasks[u].name = "process_delivery"
        /\ Targets(u, release_id, partner_id)
        /\ tasks[u].state \in states

\* C21: a retry makes a new attempt for a pair only if the pair is failed or
\* is in progress with a retry due; a retry (or a sweep pass) on a pair in
\* any other status, such as pending, makes no attempt.
C21_RetryOnlyWhenDue ==
    [][\A t \in TaskIds :
          (/\ tasks[t].name = "retry_failed_delivery"
           /\ tasks[t].state = "STARTED"
           /\ tasks'[t].state = "SUCCESS")
          => \A p \in PartnersOf(tasks'[t].results) :
                DeliveryIn({"FAILURE", "RETRY"}, tasks[t].release_id, p)]_vars

\* C22: retry_failed acts only on partners that are failed with retries
\* left (retry count below max_retries); for every other listed partner it
\* makes no attempt and reports nothing.
C22_RetryFailedOnlyFailedWithRetriesLeft ==
    [][\A t \in TaskIds :
          (/\ tasks[t].name = "retry_failed_delivery"
           /\ tasks[t].state = "STARTED"
           /\ tasks'[t].state = "SUCCESS")
          => \A p \in PartnersOf(tasks'[t].results) :
                \E u \in TaskIds :
                    /\ tasks[u].name = "process_delivery"
                    /\ Targets(u, tasks[t].release_id, p)
                    /\ tasks[u].state = "FAILURE"
                    /\ tasks[u].retries < DeliveryStatus_max_retries]_vars

\* C23: a takedown is refused for a pair that is still pending (no delivery
\* of it has started): it processes nothing for that pair; from every other
\* state it is allowed.
C23_TakedownRefusedFromPending ==
    [][\A t \in TaskIds :
          (/\ tasks[t].name = "process_takedown"
           /\ tasks[t].state = "STARTED"
           /\ tasks'[t].state = "SUCCESS")
          => \A p \in PartnersOf(tasks'[t].results) :
                DeliveryIn({"STARTED", "RETRY", "SUCCESS", "FAILURE"},
                           tasks[t].release_id, p)]_vars

\* C24: no operation moves a pair from failed to takedown: a takedown never
\* succeeds for a pair whose delivery has ended failed.
C24_NoTakedownFromFailed ==
    [][\A t \in TaskIds :
          (/\ tasks[t].name = "process_takedown"
           /\ tasks[t].state = "STARTED"
           /\ tasks'[t].state = "SUCCESS")
          => \A p \in PartnersOf(tasks'[t].results) :
                \/ ~DeliveryIn({"FAILURE"}, tasks[t].release_id, p)
                \/ DeliveryIn({"STARTED", "RETRY", "SUCCESS"}, tasks[t].release_id, p)]_vars

\* C26: no failure of the outbound webhook call escapes the handler: every
\* invocation, whatever the endpoint does (error status, timeout or any other
\* failure), ends with a response that records the outcome.
C26_EndpointFailureBecomesResponse ==
    \A i \in DOMAIN responses :
        /\ responses[i].error = ""
        /\ responses[i].statusCode \in {200, 400, 500}

\* DeliveryPartner.priority ("higher number = higher priority", 0 unless the
\* operator sets it): P1 has the default, P2 was raised above it.
DeliveryPartner_priority(partner_id) == IF partner_id = "P2" THEN 1 ELSE 0

\* C27: the partners of a request are dispatched in descending priority,
\* whatever their order in partner_ids: no partner is processed before a
\* partner of strictly higher priority of the same request.
C27_DispatchInPriorityOrder ==
    \A t \in TaskIds :
        (tasks[t].name = "process_delivery" /\ tasks[t].state = "SUCCESS") =>
            \A i, j \in DOMAIN tasks[t].results :
                i < j => DeliveryPartner_priority(tasks[t].results[i].partner_id)
                            >= DeliveryPartner_priority(tasks[t].results[j].partner_id)

\* C28: a domain event handed over for an endpoint that is subscribed to it
\* is enqueued as exactly one WebhookEvent for that endpoint (created with
\* status pending), and none exists for an event that was never handed over.
C28_EnqueueCreatesOneEvent ==
    /\ \A i \in DOMAIN responses :
          responses[i].event.url # "" =>
              Cardinality({w \in webhook_events :
                              /\ w.url = responses[i].event.url
                              /\ w.payload = webhook_payload(responses[i].event)}) = 1
    /\ \A w \in webhook_events :
          \E i \in DOMAIN responses :
              /\ w.url = responses[i].event.url
              /\ w.payload = webhook_payload(responses[i].event)

\* C29: under that scheduling every delivery that has been started ends:
\* a unit that is running or waiting for a retry eventually is delivered or
\* failed; none stays in progress forever.
C29_StartedDeliveryEnds ==
    \A t \in TaskIds :
        (tasks[t].state \in {"STARTED", "RETRY"})
            ~> (tasks[t].state \in {"SUCCESS", "FAILURE"})

C29_Witness ==
    \E t \in TaskIds :
        /\ tasks[t].name = "process_delivery"
        /\ tasks[t].state = "SUCCESS"
        /\ tasks[t].retries = process_delivery_max_retries
        /\ Attempts(t) = process_delivery_max_retries + 1

\* C30: the delivery event handler is total: it never raises; without a
\* release_id it returns 400 and publishes nothing; with a release_id and
\* action deliver, retry or takedown it returns 200.
C30_DeliveryHandlerIsTotal ==
    /\ \A i \in DOMAIN processor_responses :
          LET r == processor_responses[i]
          IN  /\ r.raised = ""
              /\ r.detail.release_id = "" => r.statusCode = 400
              /\ (/\ r.detail.release_id # ""
                  /\ r.detail.action \in {"deliver", "retry", "takedown"}
                  /\ r.detail.partner_ids # None) => r.statusCode = 200
    /\ (\A i \in DOMAIN processor_responses :
            processor_responses[i].detail.release_id = "") => sns_published = <<>>

====
